---- MODULE Spec2Model ----
(***************************************************************************)
(* Model of src/server.js: the OAuth token cache (getAccessToken), the     *)
(* period aggregator (groupByPeriod), the two row adapters                 *)
(* (adaptItemsStats, adaptCallsStats), the merge by date and the /stats    *)
(* request handler.                                                        *)
(*                                                                         *)
(* Encoding of JavaScript values:                                          *)
(*   - an object is a function from field names to values, an absent key   *)
(*     is a name outside its DOMAIN;                                       *)
(*   - a number field holds a natural number, Undefined or Null;           *)
(*   - a date string "YYYY-MM-DD" is the tuple <<YYYY, MM, DD>>, the empty *)
(*     string is <<>>; the strings that are no such date are listed with   *)
(*     ParseDate; DateLess is the order of the strings;                    *)
(*   - an array and an insertion-ordered Map are sequences.                *)
(***************************************************************************)
EXTENDS Integers, Sequences, FiniteSets, TLC

VARIABLES
    now, ticks,                 \* Date.now()/1000 and the number of clock steps
    accessToken, tokenExp,      \* the cached credential (server.js 20-21)
    issuedAt,                   \* history: the time at which the cached token was stored
    pc, loc, resp,              \* the /stats handler: position, locals, response
    aggIn, aggPeriod, aggOut, aggN,   \* groupByPeriod applied to a row list
    adRaw, adOut, adDone,       \* adaptItemsStats applied to a payload
    mgRows, mgCalls, mgOut, mgDone,            \* the merge applied to rows and call pairs
    cpc, cloc,                  \* the getAccessToken calls of SpecTok: position, locals
    lastBody,                   \* history: the body last stored
    bestExp                     \* history of SpecTok: the latest expiry its calls stored with a token

tokVars == <<now, ticks, accessToken, tokenExp, issuedAt>>
reqVars == <<pc, loc, resp>>
aggVars == <<aggIn, aggPeriod, aggOut, aggN>>
adVars  == <<adRaw, adOut, adDone>>
mgVars  == <<mgRows, mgCalls, mgOut, mgDone>>
conVars == <<cpc, cloc, lastBody, bestExp>>
vars    == <<tokVars, reqVars, aggVars, adVars, mgVars, conVars>>

(***************************************************************************)
(* JavaScript values                                                       *)
(***************************************************************************)
\* undefined and null in a number position
Undefined == -1
Null == -2

\* x.k : the value of field k, undefined when the key is absent
GetNum(o, k) == IF k \in DOMAIN o THEN o[k] ELSE Undefined

\* x.k for a date-string field: an absent key and "" are both falsy
GetDate(o, k) == IF k \in DOMAIN o THEN o[k] ELSE <<>>

\* v || 0 on a number position: undefined, null and 0 are falsy
OrZero(v) == IF v \in {Undefined, Null, 0} THEN 0 ELSE v

\* a ?? b
Nullish(v) == v \in {Undefined, Null}

(***************************************************************************)
(* getAccessToken (server.js 19-45)                                        *)
(***************************************************************************)
\* null (the initial accessToken) and undefined (j.access_token of a body without
\* the key) in a string position
NullTok == "<null>"
UndefTok == "<undefined>"

\* line 25: the margin, in seconds, before the expiry
SafetyMargin == 60

\* line 43: the lifetime when the body carries no (or a zero) expires_in
DefaultExpiresIn == 3600

\* a string is truthy unless null, undefined or empty
Truthy(tok) == tok \notin {NullTok, UndefTok, ""}

\* CacheFresh without the margin of line 25
CacheFresh_NoMargin(tok, exp, t) == Truthy(tok) /\ t < exp

\* line 25: accessToken && now < tokenExp - 60
CacheFresh(tok, exp, t) == Truthy(tok) /\ t < exp - SafetyMargin

\* line 42: j.access_token
BodyToken(j) == IF "access_token" \in DOMAIN j THEN j.access_token ELSE UndefTok

\* line 43: Math.floor(Date.now() / 1000) + (j.expires_in || 3600)
ExpiryOf(j, t) ==
    t + (IF OrZero(GetNum(j, "expires_in")) = 0 THEN DefaultExpiresIn
         ELSE GetNum(j, "expires_in"))

(***************************************************************************)
(* Dates: new Date(s + "T00:00:00Z"), getUTCDay, setUTCDate, toISOString   *)
(***************************************************************************)
\* Days since 1970-01-01 of the calendar date y-m-d (Date.UTC / MakeDay)
DaysFromCivil(y, m, d) ==
    LET yy  == IF m <= 2 THEN y - 1 ELSE y
        era == yy \div 400
        yoe == yy - era * 400
        mp  == (m + 9) % 12
        doy == (153 * mp + 2) \div 5 + d - 1
        doe == yoe * 365 + yoe \div 4 - yoe \div 100 + doy
    IN  era * 146097 + doe - 719468

\* The calendar date <<y, m, d>> of a day number (YearFromTime, MonthFromTime, DateFromTime)
CivilFromDays(z) ==
    LET zz  == z + 719468
        era == zz \div 146097
        doe == zz - era * 146097
        yoe == (doe - doe \div 1460 + doe \div 36524 - doe \div 146096) \div 365
        doy == doe - (365 * yoe + yoe \div 4 - yoe \div 100)
        mp  == (5 * doy + 2) \div 153
        d   == doy - (153 * mp + 2) \div 5 + 1
        m   == IF mp < 10 THEN mp + 3 ELSE mp - 9
        y   == yoe + era * 400
    IN  << IF m <= 2 THEN y + 1 ELSE y, m, d >>

(***************************************************************************)
(* Date strings.  <<y, m, d>> with 0 <= y <= 9999 is "YYYY-MM-DD", zero      *)
(* padded, and with y < 0 the expanded "-00YYYY-MM-DD"; <<>> is "".  Three  *)
(* more shapes are strings the program itself                               *)
(* builds: <<y, m>> with y < 0 is the first ten characters "-00YYYY-MM" of  *)
(* an ISO string with an expanded year (line 57 or 61 on a day before year  *)
(* 0000); <<y, m, d, w>> with w > 0 is "Y-MM-DD" with the year written      *)
(* unpadded in w digits, at most six (line 60 on a year below 1000);        *)
(* NaNKey is "NaN-NaN-01" (line 60 on an Invalid Date).  A negative year    *)
(* of six digits written unpadded is the expanded form itself:              *)
(* <<y, m, d, 6>> is the string "-YYYYYY-MM-DD", and parses as one.         *)
(***************************************************************************)
NaNKey == <<0, 0, 1, 0>>

\* the range of the time value of a Date, in days: 8.64e15 ms on either side of
\* 1970-01-01 (day -100000000 is -271821-04-20)
MaxTime == 100000000

\* the time value NaN of an Invalid Date: a number outside -MaxTime..MaxTime
InvalidTime == -100000001

\* TimeClip: a day number outside the range of a Date is NaN
TimeClip(z) == IF z < 0 - MaxTime \/ z > MaxTime THEN InvalidTime ELSE z

\* new Date(r.date + "T00:00:00Z"), as a day number: the ISO form needs a year
\* of four digits (or an expanded one of a sign and six), a month 01-12 and a
\* day 01-31, and a day past the end of its month rolls over into the next;
\* anything else (an unpadded year of fewer digits among it), and a date of an
\* expanded year outside the range of a Date, is an Invalid Date
ParseDate(s) ==
    IF Len(s) = 3 /\ s[1] <= 9999 /\ s[2] \in 1..12 /\ s[3] \in 1..31
    THEN TimeClip(DaysFromCivil(s[1], s[2], s[3]))
    ELSE IF Len(s) = 4 /\ s[4] = 6 /\ s[1] < 0 /\ s[2] \in 1..12 /\ s[3] \in 1..31
    THEN TimeClip(DaysFromCivil(s[1], s[2], s[3]))
    ELSE IF Len(s) = 2 /\ s[1] < 0 /\ s[2] \in 1..12
    THEN TimeClip(DaysFromCivil(s[1], s[2], 1))
    ELSE InvalidTime

\* toISOString().slice(0,10) of a valid date: an expanded year ("-000001-12-27T..")
\* leaves no room for the day
Slice10(c) == IF c[1] < 0 THEN << c[1], c[2] >> ELSE c

ISODate(z) == Slice10(CivilFromDays(z))

\* the number of digits of String(n), n >= 0 (a year has at most six)
NumDigits(n) ==
    IF n < 10 THEN 1 ELSE IF n < 100 THEN 2 ELSE IF n < 1000 THEN 3
    ELSE IF n < 10000 THEN 4 ELSE IF n < 100000 THEN 5 ELSE 6

\* line 60: `${d.getUTCFullYear()}-${String(d.getUTCMonth()+1).padStart(2,"0")}-01`
\* of a valid date of year y and month m: the year is not padded
FirstOfMonth(y, m) ==
    IF y >= 1000 THEN << y, m, 1 >>
    ELSE << y, m, 1, NumDigits(IF y < 0 THEN 0 - y ELSE y) >>

MonthKeyOf(c) == FirstOfMonth(c[1], c[2])

MonthKey(z) == MonthKeyOf(CivilFromDays(z))

\* getUTCDay(): 0 = Sunday; 1970-01-01 was a Thursday
GetUTCDay(z) == (z + 4) % 7

\* the decimal digits of n in w places, as collation weights 1..10
DigitChars(n, w) == [i \in 1..w |-> ((n \div (10 ^ (w - i))) % 10) + 1]

\* the characters of a date string as collation weights: "-" (0) sorts before
\* the digits (1..10), the digits before the letters a (11) and N (12)
Chars(s) ==
    LET abs  == IF Len(s) >= 1 /\ s[1] < 0 THEN 0 - s[1] ELSE 0
        sign == IF Len(s) >= 1 /\ s[1] < 0 THEN <<0>> ELSE <<>>
    IN  IF s = <<>> THEN <<>>
        ELSE IF s = NaNKey THEN <<12, 11, 12, 0, 12, 11, 12, 0, 1, 2>>
        ELSE IF Len(s) = 2 THEN sign \o DigitChars(abs, 6) \o <<0>> \o DigitChars(s[2], 2)
        ELSE IF Len(s) = 4
        THEN sign \o DigitChars(IF s[1] < 0 THEN abs ELSE s[1], s[4])
                  \o <<0>> \o DigitChars(s[2], 2) \o <<0>> \o DigitChars(s[3], 2)
        ELSE (IF s[1] < 0 THEN sign \o DigitChars(abs, 6) ELSE DigitChars(s[1], 4))
                  \o <<0>> \o DigitChars(s[2], 2) \o <<0>> \o DigitChars(s[3], 2)

\* a < b in dictionary order of two weight sequences
RECURSIVE SeqLess(_, _, _)
SeqLess(a, b, i) ==
    IF i > Len(b) THEN FALSE
    ELSE IF i > Len(a) THEN TRUE
    ELSE IF a[i] # b[i] THEN a[i] < b[i]
    ELSE SeqLess(a, b, i + 1)

\* a.localeCompare(b) < 0 on two date strings; on two "YYYY-MM-DD" strings the
\* order of the characters is the order of year, month and day
DateLess(a, b) ==
    IF Len(a) = 3 /\ Len(b) = 3 /\ a[1] >= 0 /\ b[1] >= 0
    THEN \/ a[1] < b[1]
         \/ a[1] = b[1] /\ a[2] < b[2]
         \/ a[1] = b[1] /\ a[2] = b[2] /\ a[3] < b[3]
    ELSE SeqLess(Chars(a), Chars(b), 1)

(***************************************************************************)
(* [...map.values()].sort((a,b) => a.date.localeCompare(b.date))           *)
(* Array.prototype.sort is stable: insertion after the last element that   *)
(* does not compare greater.                                               *)
(***************************************************************************)
RECURSIVE InsertPos(_, _, _)
InsertPos(s, x, i) ==
    IF i > Len(s) THEN i
    ELSE IF DateLess(x.date, s[i].date) THEN i
    ELSE InsertPos(s, x, i + 1)

InsertSorted(s, x) ==
    LET p == InsertPos(s, x, 1)
    IN  SubSeq(s, 1, p - 1) \o <<x>> \o SubSeq(s, p, Len(s))

RECURSIVE SortFrom(_, _, _)
SortFrom(s, i, acc) ==
    IF i > Len(s) THEN acc ELSE SortFrom(s, i + 1, InsertSorted(acc, s[i]))

SortByDate(s) == SortFrom(s, 1, <<>>)

\* Map.has / Map.get by key: the index of the entry with this date, 0 when none
RECURSIVE IndexOfDate(_, _, _)
IndexOfDate(m, key, i) ==
    IF i > Len(m) THEN 0
    ELSE IF m[i].date = key THEN i
    ELSE IndexOfDate(m, key, i + 1)

(***************************************************************************)
(* groupByPeriod (server.js 49-72)                                         *)
(***************************************************************************)
\* the marker of an argument that was not passed (undefined)
NoPeriod == "<undefined>"

\* RangeError: Invalid time value, thrown by toISOString on an Invalid Date: in
\* the place of a key, and as the outcome of groupByPeriod
RangeError == << [threw |-> "RangeError: Invalid time value"] >>

\* function groupByPeriod(rows, period="day")
DefaultPeriod(p) == IF p = NoPeriod THEN "day" ELSE p

\* toISOString().slice(0,10) of the time value z: it throws on an Invalid Date
ISOOrThrow(z) == IF z = InvalidTime THEN RangeError ELSE ISODate(z)

\* lines 54-61 on a valid date d (a day number): the Monday of its week (which
\* setUTCDate takes out of the range of a Date when d is within six days of its
\* lower end, so that line 57 throws), the first of its month, or the day itself
KeyOfValid(d, period) ==
    IF period = "week" THEN ISOOrThrow(TimeClip(d - ((GetUTCDay(d) + 6) % 7)))
    ELSE IF period = "month" THEN MonthKey(d)
    ELSE ISODate(d)

\* lines 54-61 on an Invalid Date: setUTCDate leaves it invalid and toISOString
\* throws (lines 57 and 61); line 60 builds a key of NaN
KeyOfInvalid(period) == IF period = "month" THEN NaNKey ELSE RangeError

\* lines 54-61 on the time value d of new Date(...)
KeyOfTime(d, period) ==
    IF d = InvalidTime THEN KeyOfInvalid(period) ELSE KeyOfValid(d, period)

\* BucketKey with the week starting on Sunday (the +6 of line 56 dropped)
BucketKey_SundayWeek(r, period) ==
    IF ParseDate(r.date) = InvalidTime THEN KeyOfInvalid(period)
    ELSE IF period = "week" THEN ISOOrThrow(TimeClip(ParseDate(r.date) - (GetUTCDay(ParseDate(r.date)) % 7)))
    ELSE KeyOfValid(ParseDate(r.date), period)

\* BucketKey with the day key read one day early (a local-time getter west of UTC
\* in place of toISOString)
BucketKey_LocalDay(r, period) ==
    IF ParseDate(r.date) = InvalidTime THEN KeyOfInvalid(period)
    ELSE IF period \in {"week", "month"} THEN KeyOfValid(ParseDate(r.date), period)
    ELSE ISOOrThrow(TimeClip(ParseDate(r.date) - 1))

\* BucketKey with every value other than "week" and "day" bucketed by month
BucketKey_ElseMonth(r, period) ==
    IF ParseDate(r.date) = InvalidTime
    THEN KeyOfInvalid(IF period \in {"week", "day"} THEN period ELSE "month")
    ELSE KeyOfValid(ParseDate(r.date), IF period \in {"week", "day"} THEN period ELSE "month")

\* lines 52-61: the bucket key of a row; on an Invalid Date toISOString throws
\* (lines 57 and 61), and line 60 builds a key of NaN
BucketKey(r, period) == KeyOfTime(ParseDate(r.date), period)

\* line 63: the fresh accumulator of a bucket
NewBucket(key) ==
    [date |-> key, views |-> 0, clicks |-> 0, contacts |-> 0, calls |-> 0, sales |-> 0]

\* lines 65-69
Accumulate(acc, r) ==
    [acc EXCEPT !.views    = @ + OrZero(GetNum(r, "views")),
                !.clicks   = @ + OrZero(GetNum(r, "clicks")),
                !.contacts = @ + OrZero(GetNum(r, "contacts")),
                !.calls    = @ + OrZero(GetNum(r, "calls")),
                !.sales    = @ + OrZero(GetNum(r, "sales"))]

\* lines 51-70: the loop over the rows, map in insertion order
\* lines 62-69 at index at of the map (0: the key is new): the bucket is made
\* and the row added to it
AddAt(map, at, key, r) ==
    IF at = 0 THEN Append(map, Accumulate(NewBucket(key), r))
    ELSE [map EXCEPT ![at] = Accumulate(map[at], r)]

\* lines 52-69 with the key computed: a key that threw ends the loop
AddRow(map, key, r) ==
    IF key = RangeError THEN RangeError ELSE AddAt(map, IndexOfDate(map, key, 1), key, r)

RECURSIVE GroupLoop(_, _, _, _)
GroupLoop(rows, i, map, period) ==
    IF i > Len(rows) \/ map = RangeError THEN map
    ELSE GroupLoop(rows, i + 1, AddRow(map, BucketKey(rows[i], period), rows[i]), period)

\* line 71 when the loop has ended, and nothing when it threw
SortedBuckets(map) == IF map = RangeError THEN RangeError ELSE SortByDate(map)

\* groupByPeriod without the sort of line 71: buckets in insertion order
groupByPeriod_Unsorted(rows, period) ==
    GroupLoop(rows, 1, <<>>, DefaultPeriod(period))

\* lines 49-72: the sorted buckets, or the RangeError thrown on the first row
\* whose date does not parse
groupByPeriod(rows, period) ==
    SortedBuckets(GroupLoop(rows, 1, <<>>, DefaultPeriod(period)))

(***************************************************************************)
(* adaptItemsStats (server.js 80-106)                                      *)
(* A payload is an object whose keys result and data, when present, hold   *)
(* arrays of records; a record's keys stats, dates and statistics, when    *)
(* present, hold arrays of daily entries.                                  *)
(***************************************************************************)
\* Array.isArray(raw?.k) ? raw.k : nothing
ArrayAt(raw, k) == IF k \in DOMAIN raw THEN raw[k] ELSE <<>>

\* lines 89-91
ItemBuckets(raw) == ArrayAt(raw, "result") \o ArrayAt(raw, "data")

\* line 94: b?.stats || b?.dates || b?.statistics || []  (an array, even empty, is truthy)
SeriesOf(b) ==
    IF "stats" \in DOMAIN b THEN b.stats
    ELSE IF "dates" \in DOMAIN b THEN b.dates
    ELSE IF "statistics" \in DOMAIN b THEN b.statistics
    ELSE <<>>

\* lines 96, 112: d.date || d.day || d.dt
EntryDate(d) ==
    IF GetDate(d, "date") # <<>> THEN GetDate(d, "date")
    ELSE IF GetDate(d, "day") # <<>> THEN GetDate(d, "day")
    ELSE GetDate(d, "dt")

\* Coalesce with || in place of ??: a 0 falls through to the next field
Coalesce_Or(d, a, b, c) ==
    IF OrZero(GetNum(d, a)) # 0 THEN GetNum(d, a)
    ELSE IF OrZero(GetNum(d, b)) # 0 THEN GetNum(d, b)
    ELSE IF OrZero(GetNum(d, c)) # 0 THEN GetNum(d, c)
    ELSE 0

\* lines 99, 100, 114: d.a ?? d.b ?? d.c ?? 0
Coalesce(d, a, b, c) ==
    IF ~Nullish(GetNum(d, a)) THEN GetNum(d, a)
    ELSE IF ~Nullish(GetNum(d, b)) THEN GetNum(d, b)
    ELSE IF ~Nullish(GetNum(d, c)) THEN GetNum(d, c)
    ELSE 0

\* lines 84-86, 98-102: push(date, {views, contacts})
ItemRow(d) ==
    [date     |-> EntryDate(d),
     views    |-> Coalesce(d, "views", "uniqViews", "totalViews"),
     clicks   |-> Null,
     contacts |-> Coalesce(d, "contacts", "uniqContacts", "totalContacts"),
     calls    |-> 0,
     sales    |-> 0]

\* lines 95-103: the rows of one record's daily entries
RECURSIVE EntryRows(_, _)
EntryRows(dates, i) ==
    IF i > Len(dates) THEN <<>>
    ELSE IF EntryDate(dates[i]) = <<>> THEN EntryRows(dates, i + 1)
    ELSE <<ItemRow(dates[i])>> \o EntryRows(dates, i + 1)

\* lines 93-104
RECURSIVE BucketRows(_, _)
BucketRows(buckets, i) ==
    IF i > Len(buckets) THEN <<>>
    ELSE EntryRows(SeriesOf(buckets[i]), 1) \o BucketRows(buckets, i + 1)

adaptItemsStats(raw) == BucketRows(ItemBuckets(raw), 1)

(***************************************************************************)
(* adaptCallsStats (server.js 108-117)                                     *)
(***************************************************************************)
\* line 110: raw?.result || raw?.data || []
CallItems(raw) ==
    IF "result" \in DOMAIN raw THEN raw.result
    ELSE IF "data" \in DOMAIN raw THEN raw.data
    ELSE <<>>

\* lines 111-115
RECURSIVE CallRows(_, _)
CallRows(items, i) ==
    IF i > Len(items) THEN <<>>
    ELSE IF EntryDate(items[i]) = <<>> THEN CallRows(items, i + 1)
    ELSE <<[date  |-> EntryDate(items[i]),
            calls |-> Coalesce(items[i], "calls", "success_calls", "total")]>>
         \o CallRows(items, i + 1)

adaptCallsStats(raw) == CallRows(CallItems(raw), 1)

(***************************************************************************)
(* The merge by date of the /stats handler (server.js 182-188)             *)
(***************************************************************************)
\* MapOfRows as a plain copy of the row list: a repeated date keeps all its rows
MapOfRows_KeepAll(rows, i, map) == rows

\* line 182: new Map(rows.map(r => [r.date, r])): a later row of the same date
\* replaces the earlier one at the earlier one's position
RECURSIVE MapOfRows(_, _, _)
MapOfRows(rows, i, map) ==
    IF i > Len(rows) THEN map
    ELSE LET at == IndexOfDate(map, rows[i].date, 1)
         IN  MapOfRows(rows, i + 1,
                       IF at = 0 THEN Append(map, rows[i])
                       ELSE [map EXCEPT ![at] = rows[i]])

\* AddCalls with = in place of the sum: the last pair of a date wins
AddCalls_Overwrite(t, c) ==
    [k \in DOMAIN t \cup {"calls"} |->
        IF k = "calls" THEN OrZero(GetNum(c, "calls")) ELSE t[k]]

\* line 185: t.calls = (t.calls||0) + (c.calls||0), on a row that may lack calls
AddCalls(t, c) ==
    [k \in DOMAIN t \cup {"calls"} |->
        IF k = "calls" THEN OrZero(GetNum(t, "calls")) + OrZero(GetNum(c, "calls"))
        ELSE t[k]]

\* lines 183-187
RECURSIVE MergeLoop(_, _, _)
MergeLoop(calls, i, map) ==
    IF i > Len(calls) THEN map
    ELSE LET c  == calls[i]
             at == IndexOfDate(map, c.date, 1)
             t  == IF at = 0 THEN [date |-> c.date] ELSE map[at]
             t1 == AddCalls(t, c)
         IN  MergeLoop(calls, i + 1,
                       IF at = 0 THEN Append(map, t1) ELSE [map EXCEPT ![at] = t1])

\* lines 182-188
MergeByDate(rows, calls) == SortByDate(MergeLoop(calls, 1, MapOfRows(rows, 1, <<>>)))

(***************************************************************************)
(* Bounds and input sets                                                   *)
(***************************************************************************)
\* the longest row list handed to groupByPeriod
MaxRows == 3

\* Date.now()/1000 when the process starts, and the number of clock steps taken
StartTime == 1700000000
MaxTicks == 2

\* the clock steps: a second, and the step that takes a token stored with the
\* default lifetime to the last second before its margin
TickSteps == {1, 3539}

\* the locals of a /stats request that has not started
NoLocals ==
    [grouping |-> "day", token |-> NullTok, rows |-> <<>>, log |-> <<>>,
     callTok |-> NullTok, callExp |-> 0,
     pairs |-> <<>>,
     tokenStep |-> "none", itemsStep |-> "none", callsStep |-> "none"]

\* all sequences over S of length at most n
SeqsUpTo(S, n) == UNION {[1..k -> S] : k \in 0..n}

\* a row as adaptItemsStats emits it, calls as the merge may have set it
FullRow(date, views, contacts, calls) ==
    [date |-> date, views |-> views, clicks |-> Null, contacts |-> contacts,
     calls |-> calls, sales |-> 0]

\* a row the merge created for a date that only the call statistics know
PartialRow(date, calls) == [date |-> date, calls |-> calls]

\* a row with a number in every field that lines 64-68 sum
StatRow(date, views, clicks, contacts, calls, sales) ==
    [date |-> date, views |-> views, clicks |-> clicks, contacts |-> contacts,
     calls |-> calls, sales |-> sales]

\* the end-to-end example: item payload, call payload, merged rows, expected bucket
E2EItems ==
    [result |-> << [stats |-> << [date |-> <<2024, 1, 1>>, views |-> 10, contacts |-> 2],
                                 [date |-> <<2024, 1, 2>>, views |-> 5, contacts |-> 1] >>] >>]

E2ECalls == [result |-> << [date |-> <<2024, 1, 1>>, calls |-> 3] >>]

E2EMerged == MergeByDate(adaptItemsStats(E2EItems), adaptCallsStats(E2ECalls))

E2EBucket ==
    [date |-> <<2024, 1, 1>>, views |-> 15, contacts |-> 3, calls |-> 3,
     clicks |-> 0, sales |-> 0]

\* Rows for the aggregator: every day of the week (2023-12-31 is a Sunday, the
\* last day of the week of Monday 2023-12-25), a leap day, a week across a month
\* boundary (2024-03-02 is a Saturday, its Monday 2024-02-26), a week across a
\* year boundary (2024-12-31 is a Tuesday and 2025-01-01 a Wednesday, their
\* Monday 2024-12-30), and rows with clicks and sales
AggRows ==
    {E2EMerged[i] : i \in 1..Len(E2EMerged)} \cup
    { FullRow(<<2023, 12, 31>>, 4, 1, 0),
      PartialRow(<<2024, 1, 3>>, 2),
      StatRow(<<2024, 1, 5>>, 1, 4, 0, 2, 2),
      FullRow(<<2024, 1, 8>>, 0, 0, 0),
      FullRow(<<2024, 2, 29>>, 7, 3, 1),
      PartialRow(<<2024, 3, 2>>, 3),
      StatRow(<<2024, 12, 31>>, 2, 3, 0, 0, 1),
      StatRow(<<2025, 1, 1>>, 6, 2, 1, 1, 4) }

\* the grouping values: the three periods, two unrecognised ones, an absent one
Periods == {"day", "week", "month", "year", "", NoPeriod}

NumFields == {"views", "clicks", "contacts", "calls", "sales"}

(***************************************************************************)
(* The values of the variables a specification does not use                *)
(***************************************************************************)
AggIdle == aggIn = <<>> /\ aggPeriod = NoPeriod /\ aggOut = <<>> /\ aggN = 0
AdIdle  == adRaw = <<>> /\ adOut = <<>> /\ adDone = FALSE
MgIdle  == mgRows = <<>> /\ mgCalls = <<>> /\ mgOut = <<>> /\ mgDone = FALSE
TokIdle ==
    /\ now = StartTime /\ ticks = 0 /\ accessToken = NullTok /\ tokenExp = 0
    /\ issuedAt = 0
ReqIdle == pc = "idle" /\ loc = NoLocals /\ resp = <<>>

\* the requests whose getAccessToken calls overlap (lines 122, 142, 160)
Callers == {"r1", "r2"}

\* no body stored yet (lines 20-21)
NoBody == [none |-> TRUE]

\* the locals and the history of a getAccessToken call that has not begun
NoCall == [fresh |-> FALSE, inWindow |-> FALSE, started |-> 0,
           body |-> NoBody, ret |-> NullTok]

ConIdle ==
    /\ cpc = [c \in Callers |-> "idle"] /\ cloc = [c \in Callers |-> NoCall]
    /\ lastBody = NoBody /\ bestExp = 0

(***************************************************************************)
(* SpecAgg: groupByPeriod applied to a row list, and once more to its own  *)
(* output with the same period                                             *)
(***************************************************************************)
InitAgg ==
    /\ aggIn \in SeqsUpTo(AggRows, MaxRows)
    /\ aggPeriod = NoPeriod /\ aggOut = <<>> /\ aggN = 0
    /\ TokIdle /\ ReqIdle /\ AdIdle /\ MgIdle /\ ConIdle

Aggregate ==
    /\ aggN = 0
    /\ \E p \in Periods :
         /\ aggPeriod' = p
         /\ aggOut' = groupByPeriod(aggIn, p)
    /\ aggN' = 1
    /\ UNCHANGED <<aggIn, tokVars, reqVars, adVars, mgVars, conVars>>

Reaggregate ==
    /\ aggN = 1
    /\ aggIn' = aggOut
    /\ aggOut' = groupByPeriod(aggOut, aggPeriod)
    /\ aggN' = 2
    /\ UNCHANGED <<aggPeriod, tokVars, reqVars, adVars, mgVars, conVars>>

NextAgg == Aggregate \/ Reaggregate

SpecAgg == InitAgg /\ [][NextAgg]_vars

(***************************************************************************)
(* SpecAd: adaptItemsStats applied to an item-stats payload                *)
(***************************************************************************)
\* the values of a number field of a daily entry; Undefined: the key is absent
FieldValues == {Undefined, Null, 0, 1, 5}

\* an object of the number fields a, b, c, the undefined ones left out
NumObj(a, va, b, vb, c, vc) ==
    LET val == [k \in {a, b, c} |-> IF k = a THEN va ELSE IF k = b THEN vb ELSE vc]
    IN  [k \in {k \in {a, b, c} : val[k] # Undefined} |-> val[k]]

\* the date fields of a daily entry: date; day alone; an empty date and dt;
\* an empty date and both others; an empty date alone; none
DateObjs ==
    { [date |-> <<2024, 1, 1>>],
      [date |-> <<2024, 1, 1>>, day |-> <<2024, 1, 2>>],
      [day |-> <<2024, 1, 2>>],
      [date |-> <<>>, dt |-> <<2024, 1, 3>>],
      [date |-> <<>>, day |-> <<2024, 1, 2>>, dt |-> <<2024, 1, 3>>],
      [date |-> <<>>],
      << >> }

\* daily entries: every combination of the three views fields, and of the three
\* contacts fields, with each shape of the date fields
Entries ==
    { dobj @@ NumObj("views", v, "uniqViews", u, "totalViews", t) :
        dobj \in DateObjs, v \in FieldValues, u \in FieldValues, t \in FieldValues }
    \cup
    { dobj @@ NumObj("contacts", v, "uniqContacts", u, "totalContacts", t) :
        dobj \in DateObjs, v \in FieldValues, u \in FieldValues, t \in FieldValues }

\* two fixed entries for the payloads that vary the structure
EntryA == [date |-> <<2024, 1, 1>>, views |-> 10, contacts |-> 2]
EntryB == [day |-> <<2024, 1, 2>>, uniqViews |-> 5, totalContacts |-> 1]
EntryC == [views |-> 3]

\* payloads that vary where the records and their series are found
ShapedPayloads ==
    { << >>,
      [result |-> << >>],
      [result |-> << [stats |-> <<EntryA, EntryC, EntryB>>] >>],
      [data   |-> << [dates |-> <<EntryA, EntryB>>] >>],
      [result |-> << [statistics |-> <<EntryB>>] >>, data |-> << [stats |-> <<EntryA>>] >>],
      [result |-> << [stats |-> << >>, dates |-> <<EntryA>>] >>],
      [result |-> << [dates |-> <<EntryB>>, statistics |-> <<EntryA>>], [stats |-> <<EntryA>>] >>],
      [result |-> << [other |-> <<EntryA>>], [statistics |-> <<EntryA, EntryA>>] >>] }

AdPayloads ==
    ShapedPayloads \cup { [result |-> << [stats |-> <<e>>] >>] : e \in Entries }

InitAd ==
    /\ adRaw \in AdPayloads
    /\ adOut = <<>> /\ adDone = FALSE
    /\ TokIdle /\ ReqIdle /\ AggIdle /\ MgIdle /\ ConIdle

Adapt ==
    /\ ~adDone
    /\ adOut' = adaptItemsStats(adRaw)
    /\ adDone' = TRUE
    /\ UNCHANGED <<adRaw, tokVars, reqVars, aggVars, mgVars, conVars>>

NextAd == Adapt

SpecAd == InitAd /\ [][NextAd]_vars

(***************************************************************************)
(* SpecMerge: the merge by date applied to item rows and call pairs        *)
(***************************************************************************)
\* the longest list of call pairs
MaxCalls == 3

\* item rows as adaptItemsStats emits them (calls 0), in and out of date order,
\* with and without a repeated date
MgRowLists ==
    { << >>,
      << FullRow(<<2024, 1, 1>>, 10, 2, 0) >>,
      << FullRow(<<2024, 1, 1>>, 10, 2, 0), FullRow(<<2024, 1, 2>>, 5, 1, 0) >>,
      << FullRow(<<2024, 1, 2>>, 5, 1, 0), FullRow(<<2024, 1, 1>>, 10, 2, 0) >>,
      << FullRow(<<2024, 1, 1>>, 10, 2, 0), FullRow(<<2024, 1, 1>>, 7, 0, 0) >> }

\* call pairs as adaptCallsStats emits them: a date the item rows may hold, and
\* two they never hold
CallPairs ==
    { [date |-> d, calls |-> c] :
        d \in {<<2024, 1, 1>>, <<2023, 12, 31>>, <<2024, 1, 5>>}, c \in {0, 2, 3} }

InitMerge ==
    /\ mgRows \in MgRowLists
    /\ mgCalls \in SeqsUpTo(CallPairs, MaxCalls)
    /\ mgOut = <<>> /\ mgDone = FALSE
    /\ TokIdle /\ ReqIdle /\ AggIdle /\ AdIdle /\ ConIdle

Merge ==
    /\ ~mgDone
    /\ mgOut' = MergeByDate(mgRows, mgCalls)
    /\ mgDone' = TRUE
    /\ UNCHANGED <<mgRows, mgCalls, tokVars, reqVars, aggVars, adVars, conVars>>

NextMerge == Merge

SpecMerge == InitMerge /\ [][NextMerge]_vars

(***************************************************************************)
(* Spec: the /stats handler (server.js 157-199) over the token cache.      *)
(* One action per stretch of code between two awaits; the upstream's        *)
(* answers are the inputs.  One request at a time is followed through the  *)
(* handler; the requests that overlap it (the handler is re-entrant, and   *)
(* lines 122 and 142 call getAccessToken too) appear by the one step in    *)
(* which they write the state all requests share, OtherStore.  The         *)
(* credential and the clock outlive the requests.                          *)
(***************************************************************************)
\* req.query.grouping: absent, or a period
Groupings == {NoPeriod, "week", "month"}

\* the parsed bodies of the token endpoint: with and without access_token, with
\* and without expires_in
TokenBodies ==
    { [k \in {k \in {"access_token"} : t # UndefTok} \cup
             {k \in {"expires_in"} : e # Undefined} |->
          IF k = "access_token" THEN t ELSE e] :
        t \in {UndefTok, "tokA", "tokB"}, e \in {Undefined, 62, 3600} }

\* item-stats bodies of a success status: the end-to-end example, a repeated
\* date across a year boundary, no records, a date that does not parse
DupItems ==
    [result |-> << [stats |-> << [date |-> <<2024, 1, 1>>, views |-> 10, contacts |-> 2],
                                 [date |-> <<2023, 12, 31>>, uniqViews |-> 4],
                                 [date |-> <<2024, 1, 1>>, views |-> 7] >>] >>]

\* lines 96-97 take the date of an entry as it comes: "2024-13-01" is truthy
BadDateItems ==
    [result |-> << [stats |-> << [date |-> <<2024, 13, 1>>, views |-> 3] >>] >>]

ItemPayloads == {E2EItems, DupItems, [result |-> << >>], BadDateItems}

\* the body of a non-success status: an error object without result or data
ErrorBody == [error |-> << >>]

\* call-stats bodies: the end-to-end example, no records, two pairs of one date
\* and a date the item rows do not hold
TwoCalls ==
    [data |-> << [date |-> <<2024, 1, 1>>, calls |-> 3],
                 [day |-> <<2024, 1, 5>>, total |-> 2],
                 [date |-> <<2024, 1, 1>>, success_calls |-> 2] >>]

CallPayloads == {E2ECalls, TwoCalls, [result |-> << >>]}

\* getAccessToken (lines 23-45) as each of the overlapping requests of SpecTok
\* calls it
\* StoreCred writing the token only: the expiry is not written in the same step
StoreCred_TokenOnly(j) ==
    /\ accessToken' = BodyToken(j)
    /\ issuedAt' = now
    /\ lastBody' = j
    /\ UNCHANGED tokenExp

\* lines 42-43: both fields of the credential are assigned, with no await
\* between the two assignments
StoreCred(j) ==
    /\ accessToken' = BodyToken(j)
    /\ tokenExp' = ExpiryOf(j, now)
    /\ issuedAt' = now
    /\ lastBody' = j

\* lines 24-27: the call reads the clock and the cache; it returns the cached
\* token, or issues the exchange and suspends
Call(c) ==
    /\ cpc[c] = "idle"
    /\ LET l0 == [NoCall EXCEPT
                    !.fresh = CacheFresh(accessToken, tokenExp, now),
                    !.inWindow = Truthy(accessToken) /\ now < bestExp - SafetyMargin]
       IN  IF CacheFresh(accessToken, tokenExp, now)
           THEN /\ cpc' = [cpc EXCEPT ![c] = "returned"]
                /\ cloc' = [cloc EXCEPT ![c] = [l0 EXCEPT !.ret = accessToken]]
           ELSE /\ cpc' = [cpc EXCEPT ![c] = "fetch"]
                /\ cloc' = [cloc EXCEPT ![c] = [l0 EXCEPT !.started = 1]]
    /\ UNCHANGED <<tokVars, lastBody, bestExp, reqVars, aggVars, adVars, mgVars>>

\* line 27: the exchange is answered, with a non-success or a success status, or
\* fails on the network
FetchDone(c) ==
    /\ cpc[c] = "fetch"
    /\ \E next \in {"thrown", "text", "json"} : cpc' = [cpc EXCEPT ![c] = next]
    /\ UNCHANGED <<cloc, tokVars, lastBody, bestExp, reqVars, aggVars, adVars, mgVars>>

\* Text with a retry: a non-success status issues the exchange again
Text_Retry(c) ==
    /\ cpc[c] = "text"
    /\ cpc' = [cpc EXCEPT ![c] = "fetch"]
    /\ cloc' = [cloc EXCEPT ![c].started = @ + 1]
    /\ UNCHANGED <<tokVars, lastBody, bestExp, reqVars, aggVars, adVars, mgVars>>

\* lines 37-40: a non-success status; the body text is read and the error thrown
Text(c) ==
    /\ cpc[c] = "text"
    /\ cpc' = [cpc EXCEPT ![c] = "thrown"]
    /\ UNCHANGED <<cloc, tokVars, lastBody, bestExp, reqVars, aggVars, adVars, mgVars>>

\* line 41, failing: the body does not parse (or parses to null, so that line 42
\* throws)
JsonFails(c) ==
    /\ cpc[c] = "json"
    /\ cpc' = [cpc EXCEPT ![c] = "thrown"]
    /\ UNCHANGED <<cloc, tokVars, lastBody, bestExp, reqVars, aggVars, adVars, mgVars>>

\* lines 41-44: the body parses; the credential is stored and the stored token
\* is returned
Store(c) ==
    /\ cpc[c] = "json"
    /\ \E j \in TokenBodies :
         /\ StoreCred(j)
         /\ bestExp' = IF Truthy(BodyToken(j)) /\ ExpiryOf(j, now) > bestExp
                       THEN ExpiryOf(j, now) ELSE bestExp
         /\ cloc' = [cloc EXCEPT ![c] = [@ EXCEPT !.body = j, !.ret = accessToken']]
    /\ cpc' = [cpc EXCEPT ![c] = "returned"]
    /\ UNCHANGED <<now, ticks, reqVars, aggVars, adVars, mgVars>>

\* the caller has its token, or its error, and the call's locals are dropped
Leave(c) ==
    /\ cpc[c] \in {"returned", "thrown"}
    /\ cpc' = [cpc EXCEPT ![c] = "idle"]
    /\ cloc' = [cloc EXCEPT ![c] = NoCall]
    /\ UNCHANGED <<tokVars, lastBody, bestExp, reqVars, aggVars, adVars, mgVars>>

Init ==
    /\ now = StartTime /\ ticks = 0
    /\ accessToken = NullTok /\ tokenExp = 0 /\ issuedAt = 0
    /\ pc = "idle" /\ loc = NoLocals /\ resp = <<>>
    /\ AggIdle /\ AdIdle /\ MgIdle /\ ConIdle

\* lines 196-198: the catch of the handler
Respond500(l) ==
    /\ pc' = "done"
    /\ loc' = l
    /\ resp' = Append(resp, [status |-> 500])

\* lines 194 and 197: the response to the outcome of line 193
Answer(grouped) ==
    IF grouped = RangeError THEN [status |-> 500]
    ELSE [status |-> 200, series |-> grouped]

\* Respond200 with a catch of lines 172-190 that answers 500 itself: the request
\* that reaches line 194 answers a second time
Respond200_CatchAnswers(l, rows) ==
    /\ pc' = "done"
    /\ loc' = l
    /\ resp' = (IF l.callsStep \in {"neterr", "unparseable"}
                THEN Append(resp, [status |-> 500]) ELSE resp)
               \o << Answer(groupByPeriod(rows, l.grouping)) >>

\* lines 193-194 and 196-198: group the rows and answer; a row whose date does
\* not parse makes line 193 throw, and the catch of the handler answers
Respond200(l, rows) ==
    /\ pc' = "done"
    /\ loc' = l
    /\ resp' = Append(resp, Answer(groupByPeriod(rows, l.grouping)))

\* lines 159-160 and 24-27: a request arrives; getAccessToken returns the cached
\* token, and the handler is suspended on the await of line 160, or it issues the
\* token exchange
Start ==
    /\ pc = "idle"
    /\ \E g \in Groupings :
         LET l0 == [NoLocals EXCEPT !.grouping = IF g = NoPeriod THEN "day" ELSE g]
         IN  IF CacheFresh(accessToken, tokenExp, now)
             THEN /\ pc' = "tokenAwait"
                  /\ loc' = [l0 EXCEPT !.token = accessToken, !.tokenStep = "cached"]
             ELSE /\ pc' = "tokenFetch"
                  /\ loc' = [l0 EXCEPT !.log = <<"token">>, !.callTok = accessToken,
                                       !.callExp = tokenExp]
    /\ resp' = <<>>
    /\ UNCHANGED <<tokVars, aggVars, adVars, mgVars, conVars>>

\* getAccessToken throws: its promise is rejected, and the handler, suspended on
\* the await of line 160, resumes in a later microtask
Rejected(step) ==
    /\ pc' = "tokenAwait"
    /\ loc' = [loc EXCEPT !.tokenStep = step]
    /\ UNCHANGED resp

\* line 27: the token exchange is answered, or fails on the network
TokenFetchDone ==
    /\ pc = "tokenFetch"
    /\ \/ Rejected("neterr")
       \/ /\ pc' = "tokenText"
          /\ UNCHANGED <<loc, resp>>
       \/ /\ pc' = "tokenJson"
          /\ UNCHANGED <<loc, resp>>
    /\ UNCHANGED <<tokVars, aggVars, adVars, mgVars, conVars>>

\* TokenText with a retry: a non-success status issues the token exchange again
TokenText_Retry ==
    /\ pc = "tokenText"
    /\ pc' = "tokenFetch"
    /\ loc' = [loc EXCEPT !.log = Append(@, "token")]
    /\ UNCHANGED <<resp, tokVars, aggVars, adVars, mgVars, conVars>>

\* TokenText clearing the cache before it throws
TokenText_ClearsCache ==
    /\ pc = "tokenText"
    /\ Rejected("status")
    /\ accessToken' = NullTok /\ tokenExp' = 0
    /\ UNCHANGED <<now, ticks, issuedAt, aggVars, adVars, mgVars, conVars>>

\* lines 37-40: a non-success status; the body text is read and the error thrown
TokenText ==
    /\ pc = "tokenText"
    /\ Rejected("status")
    /\ UNCHANGED <<tokVars, aggVars, adVars, mgVars, conVars>>

\* line 41, failing: the body does not parse (or parses to null, so that line 42
\* throws)
TokenJsonFails ==
    /\ pc = "tokenJson"
    /\ Rejected("unparseable")
    /\ UNCHANGED <<tokVars, aggVars, adVars, mgVars, conVars>>

\* lines 41-44: the body parses; both fields of the credential are stored and
\* the stored token is returned; the handler, suspended on the await of line
\* 160, resumes in a later microtask
TokenJson ==
    /\ pc = "tokenJson"
    /\ \E j \in TokenBodies :
         /\ StoreCred(j)
         /\ loc' = [loc EXCEPT !.token = accessToken', !.tokenStep = "exchanged",
                               !.callTok = NullTok, !.callExp = 0]
    /\ pc' = "tokenAwait"
    /\ UNCHANGED <<now, ticks, resp, cpc, cloc, bestExp, aggVars, adVars, mgVars>>

\* lines 41-44 as another request runs them while the followed one is idle or
\* suspended: an overlapping GET /stats (line 160), /debug/items (line 122) or
\* /debug/calls (line 142) that found the cache stale when it called (it is
\* empty when the process starts, and no upstream call has a timeout) has its
\* exchange answered now.  Of such a request only this step writes state that
\* the requests share; Spec follows one /stats request in full and every other
\* request by this step.
OtherStore ==
    /\ \E j \in TokenBodies : StoreCred(j)
    /\ UNCHANGED <<now, ticks, reqVars, cpc, cloc, bestExp, aggVars, adVars, mgVars>>

\* lines 160-163 and 196-198: the handler resumes from the await of line 160
\* with the token, and issues the item-stats call, or with the error of
\* getAccessToken, and answers 500
TokenAwaited ==
    /\ pc = "tokenAwait"
    /\ IF loc.tokenStep \in {"cached", "exchanged"}
       THEN /\ pc' = "itemsFetch"
            /\ loc' = [loc EXCEPT !.log = Append(@, "items")]
            /\ UNCHANGED resp
       ELSE Respond500(loc)
    /\ UNCHANGED <<tokVars, aggVars, adVars, mgVars, conVars>>

\* lines 163-167: the item-stats call is answered, with any status (r1.ok is not
\* read), or fails on the network
ItemsFetchDone ==
    /\ pc = "itemsFetch"
    /\ \/ Respond500([loc EXCEPT !.itemsStep = "neterr"])
       \/ \E ok \in BOOLEAN :
            /\ pc' = "itemsJson"
            /\ loc' = [loc EXCEPT !.itemsStep = IF ok THEN "ok" ELSE "status"]
            /\ UNCHANGED resp
    /\ UNCHANGED <<tokVars, aggVars, adVars, mgVars, conVars>>

\* line 168, failing: the item-stats body does not parse
ItemsJsonFails ==
    /\ pc = "itemsJson"
    /\ Respond500([loc EXCEPT !.itemsStep = "unparseable"])
    /\ UNCHANGED <<tokVars, aggVars, adVars, mgVars, conVars>>

\* lines 168-169 and 173: the body parses, whatever the status was, the adapter
\* runs, the call-stats call is issued
ItemsJson ==
    /\ pc = "itemsJson"
    /\ \E j1 \in ItemPayloads \cup {ErrorBody} :
         loc' = [loc EXCEPT !.rows = adaptItemsStats(j1), !.log = Append(@, "calls")]
    /\ pc' = "callsFetch"
    /\ UNCHANGED <<resp, tokVars, aggVars, adVars, mgVars, conVars>>

\* lines 173-178 and 190-194: the call-stats call fails on the network or is
\* answered with a non-success status, and the item rows are grouped as they
\* are; or it is answered with a success status
CallsFetchDone ==
    /\ pc = "callsFetch"
    /\ \/ Respond200([loc EXCEPT !.callsStep = "neterr"], loc.rows)
       \/ Respond200([loc EXCEPT !.callsStep = "status"], loc.rows)
       \/ /\ pc' = "callsJson"
          /\ UNCHANGED <<loc, resp>>
    /\ UNCHANGED <<tokVars, aggVars, adVars, mgVars, conVars>>

\* lines 179, 190-194: the call-stats body does not parse
CallsJsonFails ==
    /\ pc = "callsJson"
    /\ Respond200([loc EXCEPT !.callsStep = "unparseable"], loc.rows)
    /\ UNCHANGED <<tokVars, aggVars, adVars, mgVars, conVars>>

\* lines 179-188, 193-194: the body parses, the pairs are merged into the rows,
\* the merged rows are grouped
CallsJson ==
    /\ pc = "callsJson"
    /\ \E j2 \in CallPayloads :
         Respond200([loc EXCEPT !.callsStep = "merged", !.pairs = adaptCallsStats(j2)],
                    MergeByDate(loc.rows, adaptCallsStats(j2)))
    /\ UNCHANGED <<tokVars, aggVars, adVars, mgVars, conVars>>

\* the response has been sent and the request's objects are dropped
Close ==
    /\ pc = "done"
    /\ pc' = "idle" /\ loc' = NoLocals /\ resp' = <<>>
    /\ UNCHANGED <<tokVars, aggVars, adVars, mgVars, conVars>>

\* The clock advances, at any position of any request
Tick ==
    /\ ticks < MaxTicks
    /\ \E dt \in TickSteps : now' = now + dt
    /\ ticks' = ticks + 1
    /\ UNCHANGED <<accessToken, tokenExp, issuedAt, reqVars, aggVars, adVars, mgVars, conVars>>

Next ==
    \/ Start
    \/ TokenFetchDone \/ TokenText \/ TokenJsonFails \/ TokenJson \/ TokenAwaited
    \/ ItemsFetchDone \/ ItemsJsonFails \/ ItemsJson
    \/ CallsFetchDone \/ CallsJsonFails \/ CallsJson
    \/ Close
    \/ OtherStore
    \/ Tick

Spec == Init /\ [][Next]_vars

\* the steps of a request that resume it when an upstream call returns or raises
Resume ==
    \/ TokenFetchDone \/ TokenText \/ TokenJsonFails \/ TokenJson \/ TokenAwaited
    \/ ItemsFetchDone \/ ItemsJsonFails \/ ItemsJson
    \/ CallsFetchDone \/ CallsJsonFails \/ CallsJson

\* the positions of the handler
Positions ==
    {"idle", "tokenFetch", "tokenText", "tokenJson", "tokenAwait", "itemsFetch",
     "itemsJson",
     "callsFetch", "callsJson", "done"}

\* the request is suspended on an await of an upstream call or of its body
Suspended == pc \notin {"idle", "done"}

\* a suspended request moves on: the steps of Resume are those that change the
\* position of a suspended request, and one is possible whenever the request is
\* suspended
Resumed == Suspended /\ pc' \in Positions \ {pc}

\* Spec with every awaited upstream call eventually returning or raising
SpecLive == Spec /\ WF_pc(Resumed)

(***************************************************************************)
(* SpecTok: getAccessToken called by overlapping requests.  A call runs     *)
(* without suspension from line 24 to the await of line 27, and from the    *)
(* resumption of line 41 to the return of line 44.                          *)
(***************************************************************************)
InitTok ==
    /\ TokIdle /\ ConIdle
    /\ ReqIdle /\ AggIdle /\ AdIdle /\ MgIdle

NextTok ==
    \/ \E c \in Callers : Call(c)
    \/ \E c \in Callers : FetchDone(c)
    \/ \E c \in Callers : Text(c)
    \/ \E c \in Callers : JsonFails(c)
    \/ \E c \in Callers : Store(c)
    \/ \E c \in Callers : Leave(c)
    \/ Tick

SpecTok == InitTok /\ [][NextTok]_vars

(***************************************************************************)
(* Claims about groupByPeriod, checked under SpecAgg                       *)
(***************************************************************************)
\* the sum of a field over a row list, absent and null values counted as 0
RECURSIVE SumField(_, _, _)
SumField(rows, f, i) ==
    IF i > Len(rows) THEN 0
    ELSE OrZero(GetNum(rows[i], f)) + SumField(rows, f, i + 1)

\* the rows of a list whose date satisfies Covered
RECURSIVE RowsWhere(_, _, _)
RowsWhere(rows, Covered(_), i) ==
    IF i > Len(rows) THEN <<>>
    ELSE (IF Covered(rows[i].date) THEN <<rows[i]>> ELSE <<>>)
         \o RowsWhere(rows, Covered, i + 1)

\* a row dated d falls into the bucket keyed key: the same day, the seven days
\* starting at key, the same year and month
InBucket(d, key, period) ==
    IF period = "week"
    THEN ParseDate(d) - ParseDate(key) \in 0..6
    ELSE IF period = "month"
    THEN d[1] = key[1] /\ d[2] = key[2]
    ELSE d = key

\* C3: for day, week and month the buckets of groupByPeriod have strictly
\* ascending (hence pairwise distinct) keys, every input row falls into exactly
\* one bucket, every bucket's fields are the sums over the rows that fall into it,
\* and so each field's total over the buckets is its total over the input rows.
C3_BucketsPartitionInput ==
    (aggN = 1 /\ aggPeriod \in {"day", "week", "month"}) =>
        /\ \A j \in 1..(Len(aggOut) - 1) : DateLess(aggOut[j].date, aggOut[j + 1].date)
        /\ \A i \in 1..Len(aggIn) :
             Cardinality({j \in 1..Len(aggOut) :
                            InBucket(aggIn[i].date, aggOut[j].date, aggPeriod)}) = 1
        /\ \A j \in 1..Len(aggOut) : \A f \in NumFields :
             LET Mine(d) == InBucket(d, aggOut[j].date, aggPeriod)
             IN  aggOut[j][f] = SumField(RowsWhere(aggIn, Mine, 1), f, 1)
        /\ \A f \in NumFields : SumField(aggOut, f, 1) = SumField(aggIn, f, 1)

\* C3 witness: three rows out of date order, the first two of one week and
\* with clicks and sales, grouped by week: the later bucket sums two rows in
\* each of the five fields
C3_Witness ==
    /\ aggN = 1 /\ aggPeriod = "week"
    /\ Len(aggIn) = 3 /\ Len(aggOut) = 2
    /\ DateLess(aggIn[3].date, aggIn[2].date)
    /\ DateLess(aggIn[2].date, aggIn[1].date)
    /\ aggOut[1].calls > 0
    /\ aggOut[2] = [date |-> <<2024, 12, 30>>, views |-> 8, clicks |-> 5,
                     contacts |-> 1, calls |-> 1, sales |-> 5]

\* C4: grouped by week, every bucket key is a Monday, every row lies 0 to 6 days
\* after the key of the bucket that sums it; grouped by month, every row is summed
\* in the bucket keyed by the first day of its month; and the merged rows of the
\* end-to-end example grouped by week give the single bucket 2024-01-01 with
\* views 15, contacts 3, calls 3, clicks 0, sales 0.
C4_BucketKeys ==
    aggN = 1 =>
        /\ aggPeriod = "week" =>
             /\ \A j \in 1..Len(aggOut) :
                  /\ GetUTCDay(ParseDate(aggOut[j].date)) = 1
                  /\ CivilFromDays(ParseDate(aggOut[j].date)) = aggOut[j].date
             /\ \A i \in 1..Len(aggIn) : \E j \in 1..Len(aggOut) :
                  /\ ParseDate(aggIn[i].date) - ParseDate(aggOut[j].date) \in 0..6
                  /\ aggOut[j].views >= OrZero(GetNum(aggIn[i], "views"))
                  /\ aggOut[j].calls >= OrZero(GetNum(aggIn[i], "calls"))
        /\ aggPeriod = "month" =>
             \A i \in 1..Len(aggIn) : \E j \in 1..Len(aggOut) :
                  /\ aggOut[j].date = << aggIn[i].date[1], aggIn[i].date[2], 1 >>
                  /\ aggOut[j].views >= OrZero(GetNum(aggIn[i], "views"))
                  /\ aggOut[j].calls >= OrZero(GetNum(aggIn[i], "calls"))
        /\ (aggPeriod = "week" /\ aggIn = E2EMerged) => aggOut = << E2EBucket >>

\* C4 witness: the end-to-end example's merged rows and the row of 2025-01-01,
\* a Wednesday, have been grouped by week: the example's bucket, and a bucket
\* keyed by the Monday 2024-12-30 of the year and the month before the row's
C4_Witness ==
    /\ aggN = 1 /\ aggPeriod = "week"
    /\ Len(aggIn) = 3 /\ aggIn[1] = E2EMerged[1] /\ aggIn[2] = E2EMerged[2]
    /\ aggIn[3].date = <<2025, 1, 1>>
    /\ Len(aggOut) = 2 /\ aggOut[1] = E2EBucket
    /\ aggOut[2].date = <<2024, 12, 30>> /\ aggOut[2].views = 6

\* C6: grouping by day the output of a grouping by day changes nothing.
C6_DayIdempotent ==
    (aggN = 2 /\ aggPeriod = "day") => aggOut = aggIn

\* C6 witness: a day series of two buckets, one of them the sum of two rows,
\* has been grouped by day again
C6_Witness ==
    /\ aggN = 2 /\ aggPeriod = "day"
    /\ Len(aggIn) = 2 /\ Len(aggOut) = 2
    /\ aggIn[1].views = 20 /\ aggIn[2].calls > 0

\* C10: a grouping value other than "week" and "month", an absent one included,
\* gives the buckets that "day" gives.
C10_UnknownPeriodIsDay ==
    (aggN = 1 /\ aggPeriod \notin {"week", "month"}) =>
        aggOut = groupByPeriod(aggIn, "day")

\* C10 witness: rows grouped by "year" where grouping by week or by month would
\* have given fewer buckets
C10_Witness ==
    /\ aggN = 1 /\ aggPeriod = "year"
    /\ Len(aggOut) = 3
    /\ Len(groupByPeriod(aggIn, "week")) = 2
    /\ Len(groupByPeriod(aggIn, "month")) = 2

(***************************************************************************)
(* Claims about adaptItemsStats, checked under SpecAd                      *)
(***************************************************************************)
\* all daily entries of a payload, in the order the adapter visits them
RECURSIVE AllEntries(_, _)
AllEntries(buckets, i) ==
    IF i > Len(buckets) THEN <<>>
    ELSE SeriesOf(buckets[i]) \o AllEntries(buckets, i + 1)

\* the entry carries a date under date, day or dt
HasDate(d) == \E k \in {"date", "day", "dt"} : k \in DOMAIN d /\ d[k] # <<>>

\* the value of the first field of ks that the entry defines (present and not
\* null), 0 when it defines none
FirstDefined(d, ks) ==
    LET def == {i \in 1..Len(ks) : ks[i] \in DOMAIN d /\ d[ks[i]] # Null}
    IN  IF def = {} THEN 0
        ELSE d[ks[CHOOSE i \in def : \A j \in def : i <= j]]

ExampleUniqViews == [date |-> <<2024, 1, 1>>, uniqViews |-> 5]
ExampleBothViews == [date |-> <<2024, 1, 1>>, views |-> 1, uniqViews |-> 5]

\* C9: adaptItemsStats emits one row per daily entry that carries a date, in
\* order, and none for an entry without date, day and dt; the row's views is the
\* first defined of views, uniqViews, totalViews, else 0, its contacts the first
\* defined of contacts, uniqContacts, totalContacts, else 0; so uniqViews 5
\* without views gives views 5, and views 1 with uniqViews 5 gives views 1.
C9_ItemFieldFallback ==
    adDone =>
        LET dated == SelectSeq(AllEntries(ItemBuckets(adRaw), 1), HasDate)
        IN  /\ Len(adOut) = Len(dated)
            /\ \A i \in 1..Len(dated) :
                 /\ adOut[i].views =
                      FirstDefined(dated[i], <<"views", "uniqViews", "totalViews">>)
                 /\ adOut[i].contacts =
                      FirstDefined(dated[i], <<"contacts", "uniqContacts", "totalContacts">>)
            /\ adRaw = [result |-> << [stats |-> <<ExampleUniqViews>>] >>]
                 => Len(adOut) = 1 /\ adOut[1].views = 5
            /\ adRaw = [result |-> << [stats |-> <<ExampleBothViews>>] >>]
                 => Len(adOut) = 1 /\ adOut[1].views = 1

\* C9 witness: the entry {date, uniqViews: 5} has been adapted to one row
C9_Witness ==
    /\ adDone
    /\ adRaw = [result |-> << [stats |-> <<ExampleUniqViews>>] >>]
    /\ Len(adOut) = 1 /\ adOut[1].date = <<2024, 1, 1>> /\ adOut[1].views = 5

(***************************************************************************)
(* Claims about the merge by date, checked under SpecMerge                 *)
(***************************************************************************)
\* the permutations of 1..n
Perms(n) == {p \in [1..n -> 1..n] : \A i, j \in 1..n : p[i] = p[j] => i = j}

\* the calls of the item rows dated d before the merge: those of the last such
\* row, 0 when there is none
OriginalCalls(rows, d) ==
    LET at == {i \in 1..Len(rows) : rows[i].date = d}
    IN  IF at = {} THEN 0
        ELSE OrZero(GetNum(rows[CHOOSE i \in at : \A j \in at : j <= i], "calls"))

\* C5: for every date with a call pair the merged rows hold a row of that date
\* whose calls is the item row's original calls (0 without an item row) plus the
\* sum of the calls of all pairs of that date, and every permutation of the pair
\* list gives the same merged rows; pairs (d,3) and (d,2) add 5.
C5_MergeAdditiveAnyOrder ==
    mgDone =>
        /\ \A c \in {mgCalls[i] : i \in 1..Len(mgCalls)} :
             LET Same(d) == d = c.date
             IN  /\ \E j \in 1..Len(mgOut) : mgOut[j].date = c.date
                 /\ \A j \in 1..Len(mgOut) :
                      mgOut[j].date = c.date =>
                        mgOut[j].calls = OriginalCalls(mgRows, c.date)
                                         + SumField(RowsWhere(mgCalls, Same, 1), "calls", 1)
        /\ \A p \in Perms(Len(mgCalls)) :
             MergeByDate(mgRows, [i \in 1..Len(mgCalls) |-> mgCalls[p[i]]]) = mgOut

\* C5 witness: pairs (2024-01-01, 3) and (2024-01-01, 2) have been merged into
\* an item row of that date, which now holds 5 calls
C5_Witness ==
    /\ mgDone
    /\ Len(mgRows) = 2 /\ mgRows[1].date = <<2024, 1, 1>>
    /\ mgCalls = << [date |-> <<2024, 1, 1>>, calls |-> 3],
                    [date |-> <<2024, 1, 1>>, calls |-> 2] >>
    /\ mgOut[1].date = <<2024, 1, 1>> /\ mgOut[1].calls = 5 /\ mgOut[1].views = 10

(***************************************************************************)
(* Claims about the token cache and the /stats handler, checked under Spec *)
(***************************************************************************)
\* the followed request calls getAccessToken: the step from line 159 to the first
\* await of the call
Called == pc = "idle" /\ pc' # "idle"

\* the call finds a token it may reuse: one is cached, and the time read is more
\* than 60 seconds before its expiry
FoundFresh == Truthy(accessToken) /\ now < tokenExp - 60

\* the call returns the cached token and issues no exchange
Reused ==
    /\ pc' = "tokenAwait"
    /\ loc'.tokenStep = "cached"
    /\ loc'.token = accessToken
    /\ loc'.log = <<>>

\* the call issues a token exchange, before any other upstream call
Exchanged == pc' = "tokenFetch" /\ loc'.log = <<"token">>

\* C1: a getAccessToken call made while a token is cached and now < tokenExp - 60
\* returns the cached token without an exchange; any other call issues an
\* exchange.  A token stored at t0 with a lifetime of 3600 seconds is reused by
\* every call before t0 + 3540 and refreshed by every call from t0 + 3540 on.
\* A request that had the cached token issues no exchange later either.
C1_TokenCacheFreshness ==
    /\ [][Called =>
            /\ FoundFresh => Reused
            /\ ~FoundFresh => Exchanged
            /\ (Truthy(accessToken) /\ tokenExp = issuedAt + 3600) =>
                 /\ now < issuedAt + 3540 => Reused
                 /\ now >= issuedAt + 3540 => Exchanged]_vars
    /\ [](loc.tokenStep = "cached" => \A i \in 1..Len(loc.log) : loc.log[i] # "token")

\* C1 witness: a token stored with a lifetime of 3600 seconds has been returned
\* from the cache to a request that arrived 3539 seconds later
C1_Witness ==
    /\ pc = "tokenAwait" /\ loc.log = <<>>
    /\ loc.tokenStep = "cached" /\ loc.token = "tokA" /\ accessToken = "tokA"
    /\ tokenExp = issuedAt + 3600
    /\ now = issuedAt + 3539

\* the call-stats step of the request failed: network error, non-success status,
\* unparseable body
CallsFailed == loc.callsStep \in {"neterr", "status", "unparseable"}

\* the 200 answer of a request whose call-stats step failed: the period
\* aggregation of the item rows alone, no bucket holding a call, the views and
\* contacts of the buckets those of the item rows
ItemOnlyAnswer ==
    /\ Len(resp) = 1
    /\ resp[1].status = 200
    /\ resp[1].series = groupByPeriod(loc.rows, loc.grouping)
    /\ \A j \in 1..Len(resp[1].series) : resp[1].series[j].calls = 0
    /\ SumField(resp[1].series, "views", 1) = SumField(loc.rows, "views", 1)
    /\ SumField(resp[1].series, "contacts", 1) = SumField(loc.rows, "contacts", 1)

\* C2: when the token and item-stats steps succeeded and the call-stats call
\* fails on the network, returns a non-success status or an unparseable body,
\* the request is answered once, with 200 (never 500) and the period aggregation
\* of the item rows alone; no bucket holds a call, and the views and contacts of
\* the buckets are those of the item rows.
C2_CallsFailureNeverAborts ==
    (pc = "done" /\ CallsFailed) => ItemOnlyAnswer

\* every item row of the request has a date that new Date (line 52) parses
ItemDatesParse ==
    \A i \in 1..Len(loc.rows) : ParseDate(loc.rows[i].date) # InvalidTime

\* On item rows whose dates parse, a failed call-stats step ends in the 200
\* answer of the item rows alone.
CallsFailureAnswers200OnParseableDates ==
    (pc = "done" /\ CallsFailed /\ ItemDatesParse) => ItemOnlyAnswer

\* With an item row whose date does not parse, the request is answered 500 for
\* day and week alike whether the call-stats step failed or succeeded.
UnparseableDateAnswers500 ==
    (pc = "done" /\ loc.itemsStep = "ok" /\ ~ItemDatesParse
       /\ loc.grouping # "month") => resp = << [status |-> 500] >>

\* the token exchange of the request returned a non-success status or a body that
\* does not parse, or a parsed body without access_token
TokenExchangeBad ==
    \/ loc.tokenStep \in {"status", "unparseable"}
    \/ loc.tokenStep = "exchanged" /\ ~Truthy(loc.token)

\* getAccessToken threw and returned no token: no further upstream call is
\* issued, and the handler's catch answers 500
TokenCallThrew ==
    /\ loc.tokenStep \in {"status", "unparseable"}
    /\ loc.token = NullTok
    /\ loc.log = << "token" >>
    /\ pc = "done" => resp = << [status |-> 500] >>

\* C7: getAccessToken fails with an error whenever the token exchange returns a
\* non-success status, an unparseable body or a parsed body without access_token.
\* (Violated: lines 41-44 store and return j.access_token unchecked.)
C7_BadExchangeThrows ==
    TokenExchangeBad => TokenCallThrew

\* the token exchange threw, or the item-stats call failed on the network,
\* returned a non-success status or an unparseable body
FatalFailure ==
    \/ loc.tokenStep \in {"neterr", "status", "unparseable"}
    \/ loc.itemsStep \in {"neterr", "status", "unparseable"}

\* C8: a request whose token exchange or item-stats call failed is answered 500
\* and never 200.  (Violated: line 168 parses the body of a non-success status
\* without reading r1.ok.)
C8_FatalFailuresAnswer500 ==
    (pc = "done" /\ FatalFailure) => resp = << [status |-> 500] >>

\* the number of times upstream call c was issued by the request
Issued(c) == Cardinality({i \in 1..Len(loc.log) : loc.log[i] = c})

\* the upstream call the handler is suspended on: the fetch, or the reading of
\* its body
Awaited ==
    IF pc \in {"tokenFetch", "tokenText", "tokenJson"} THEN {"token"}
    ELSE IF pc \in {"itemsFetch", "itemsJson"} THEN {"items"}
    ELSE IF pc \in {"callsFetch", "callsJson"} THEN {"calls"}
    ELSE {}

\* the upstream calls were issued in the order token exchange, item-stats,
\* call-stats, each at most once
IssuedInOrder ==
    loc.log \in { <<>>, <<"token">>, <<"token", "items">>, <<"token", "items", "calls">>,
                  <<"items">>, <<"items", "calls">> }

\* C11 as stated: each of the three upstream calls is attempted exactly once per
\* request.  (Violated by a request that is answered 200 from a cached token:
\* it issues no token exchange.)
C11_EachCallExactlyOnce ==
    (pc = "done" /\ resp[1].status = 200) =>
        /\ Issued("token") = 1
        /\ Issued("items") = 1
        /\ Issued("calls") = 1

\* C11, amended: a request issues each upstream call at most once and in the
\* order token exchange, item-stats, call-stats; the call it waits for is the
\* last one it issued, so that every earlier call has completed and no two are
\* in flight together; a request answered 200 issued item-stats and call-stats
\* exactly once, and the token exchange exactly once unless the cached token was
\* fresh, when it issued none.
C11_UpstreamCallsOnceInOrder ==
    /\ IssuedInOrder
    /\ \A c \in {"token", "items", "calls"} : Issued(c) <= 1
    /\ Awaited # {} => Awaited = {loc.log[Len(loc.log)]}
    /\ (pc = "done" /\ resp[1].status = 200) =>
          /\ Issued("items") = 1 /\ Issued("calls") = 1
          /\ Issued("token") = (IF loc.tokenStep = "cached" THEN 0 ELSE 1)

\* C11 witness: the call-stats call is in flight after an exchange and the
\* item-stats call
C11_Witness ==
    /\ pc = "callsFetch"
    /\ loc.log = <<"token", "items", "calls">>
    /\ loc.tokenStep = "exchanged" /\ loc.itemsStep = "ok"

\* a step of the followed request's getAccessToken call: it is issued, answered,
\* or its body read
CallStep ==
    /\ <<pc, loc>>' # <<pc, loc>>
    /\ pc' \in {"tokenFetch", "tokenText", "tokenJson", "tokenAwait"}

\* the token exchange of the request failed: the request threw, the status was
\* not a success, or the body did not parse
ExchangeFailed == loc.tokenStep \in {"neterr", "status", "unparseable"}

\* C17 as stated: when the exchange of a getAccessToken call has failed,
\* accessToken and tokenExp hold the values they had before the call, and the
\* credential is absent or stale.  (Violated when an overlapping request stores
\* the answer of its own exchange between the call and the failure.)
C17_CacheAsBeforeTheCall ==
    ExchangeFailed =>
        /\ accessToken = loc.callTok
        /\ tokenExp = loc.callExp
        /\ ~CacheFresh(accessToken, tokenExp, now)

\* C17, amended: a getAccessToken call whose exchange fails (non-success status,
\* or the request or the parsing of the body throws) writes neither accessToken
\* nor tokenExp: every step of the call but the store of a parsed body leaves
\* both as they are; the failed call has no token; and a cache that holds the
\* values of before the call when the call has failed is absent or stale, so
\* that the next call attempts an exchange.  Only the store of another
\* request's exchange changes the values meanwhile.
C17_FailedExchangeLeavesCache ==
    /\ [][(CallStep /\ loc'.tokenStep # "exchanged") =>
            /\ accessToken' = accessToken
            /\ tokenExp' = tokenExp]_vars
    /\ [](ExchangeFailed => loc.token = NullTok)
    /\ []((ExchangeFailed /\ accessToken = loc.callTok /\ tokenExp = loc.callExp)
            => ~CacheFresh(accessToken, tokenExp, now))

\* C17 witness: a request found the token of an earlier exchange stale, its own
\* exchange returned a body that does not parse, and the stale token is still
\* cached
C17_Witness ==
    /\ pc = "tokenAwait" /\ loc.tokenStep = "unparseable"
    /\ loc.callTok = "tokA" /\ accessToken = "tokA" /\ tokenExp = loc.callExp
    /\ tokenExp = issuedAt + 62 /\ now >= tokenExp - SafetyMargin

(***************************************************************************)
(* Claims about overlapping getAccessToken calls, checked under SpecTok     *)
(***************************************************************************)
\* the callers whose exchange is in flight
InFlight == {c \in Callers : cpc[c] \in {"fetch", "text", "json"}}

\* the exchange of caller c succeeded: its body parsed and carried a token
ExchangeSucceeded(c) ==
    /\ cpc[c] = "returned"
    /\ cloc[c].started = 1
    /\ Truthy(BodyToken(cloc[c].body))

\* C12 as stated, last part: once a successful exchange has stored its result, a
\* call that arrives within that result's validity window (a token is cached,
\* and now is more than 60 seconds before the expiry that exchange stored)
\* starts no exchange.  (Violated: an overlapping exchange that completes later
\* with a shorter lifetime overwrites the expiry.)
C12_NoExchangeInsideAnyWindow ==
    \A c \in Callers : cloc[c].inWindow => cloc[c].started = 0

\* C12, amended: each getAccessToken call starts at most one exchange, none when
\* the stored credential (that of the last exchange to store) is fresh at the
\* call and one when it is absent or stale, so that the exchanges in flight are
\* at most one per caller; a caller whose exchange succeeds returns the token
\* that its exchange issued; a caller that starts no exchange returns the cached
\* token.
C12_RefreshBoundedPerCaller ==
    /\ \A c \in Callers :
         /\ cloc[c].started <= 1
         /\ cpc[c] # "idle" => (cloc[c].fresh <=> cloc[c].started = 0)
         /\ c \in InFlight => cloc[c].started = 1
         /\ ExchangeSucceeded(c) => cloc[c].ret = BodyToken(cloc[c].body)
         /\ (cpc[c] = "returned" /\ cloc[c].started = 0) => Truthy(cloc[c].ret)
    /\ Cardinality(InFlight) <= Cardinality(Callers)

\* C12 witness: two callers found the cache absent or stale and each started its
\* own exchange; one has returned the token of its exchange while the other's
\* exchange is still in flight
C12_Witness ==
    /\ ExchangeSucceeded("r1") /\ cloc["r1"].ret = "tokA"
    /\ cpc["r2"] = "json" /\ cloc["r2"].started = 1

\* C16: in every reachable state, under every interleaving of overlapping
\* getAccessToken calls, accessToken and tokenExp were written by the same
\* completed exchange: the token is that of the body last stored and the expiry
\* is the time of that store plus that body's lifetime (3600 by default); before
\* any store they are null and 0.
C16_CredentialPairFromOneExchange ==
    IF lastBody = NoBody
    THEN accessToken = NullTok /\ tokenExp = 0
    ELSE /\ accessToken = BodyToken(lastBody)
         /\ tokenExp = ExpiryOf(lastBody, issuedAt)

\* C16 witness: two overlapping exchanges have both stored, at different times
\* and with different tokens and lifetimes; the credential is the pair of the
\* second
C16_Witness ==
    /\ ExchangeSucceeded("r1") /\ ExchangeSucceeded("r2")
    /\ cloc["r1"].body = [access_token |-> "tokA", expires_in |-> 3600]
    /\ cloc["r2"].body = [access_token |-> "tokB", expires_in |-> 62]
    /\ accessToken = "tokB" /\ tokenExp = issuedAt + 62 /\ issuedAt > StartTime

(***************************************************************************)
(* Claims about the merge inside a /stats request, checked under Spec       *)
(***************************************************************************)
\* no two rows carry the same date
DistinctDates(rows) ==
    \A i, j \in 1..Len(rows) : rows[i].date = rows[j].date => i = j

\* the series of a request whose call-stats call succeeded with no records
SeriesOfEmptySuccess ==
    groupByPeriod(MergeByDate(loc.rows, adaptCallsStats([result |-> << >>])), loc.grouping)

\* the series of a request whose call-stats call failed
SeriesOfFailure == groupByPeriod(loc.rows, loc.grouping)

\* what line 193 gave the answered request: the series of its 200 response, or
\* the RangeError that its 500 response reports
Returned == IF resp[1].status = 200 THEN resp[1].series ELSE RangeError

\* the request was answered after a call-stats body without records was merged
MergedNothing == pc = "done" /\ loc.callsStep = "merged" /\ loc.pairs = <<>>

\* C13 as stated: for every item-stats result, rows with a repeated date
\* included, the series returned when the call-stats call fails equals the series
\* returned when it succeeds with an empty record list.  (Violated on item rows
\* that repeat a date: the map of line 182 keeps the last row of the date, the
\* failure path sums them all.)
C13_FailureEqualsEmptySuccess ==
    /\ (pc = "done" /\ CallsFailed) => Returned = SeriesOfEmptySuccess
    /\ MergedNothing => Returned = SeriesOfFailure

\* On item rows that carry each date at most once the two series are equal
\* (an invariant of Spec): the divergence of C13 needs a repeated date.
FailureEqualsEmptySuccessOnDistinctDates ==
    DistinctDates(loc.rows) =>
        /\ (pc = "done" /\ CallsFailed) => Returned = SeriesOfEmptySuccess
        /\ MergedNothing => Returned = SeriesOfFailure

(***************************************************************************)
(* Claims about the series key of adaptItemsStats, checked under SpecAd     *)
(***************************************************************************)
\* the first non-empty list among stats, dates, statistics of a record
FirstNonEmptySeries(b) ==
    LET ks  == <<"stats", "dates", "statistics">>
        has == {i \in 1..3 : ks[i] \in DOMAIN b /\ Len(b[ks[i]]) > 0}
    IN  IF has = {} THEN <<>>
        ELSE b[ks[CHOOSE i \in has : \A j \in has : i <= j]]

\* the daily entries of a payload when every record gives its first non-empty
\* list
RECURSIVE NonEmptyEntries(_, _)
NonEmptyEntries(buckets, i) ==
    IF i > Len(buckets) THEN <<>>
    ELSE FirstNonEmptySeries(buckets[i]) \o NonEmptyEntries(buckets, i + 1)

\* C14: for each record of item-stats the daily entries are those of the first
\* non-empty list among stats, dates, statistics, in that order; a record whose
\* stats is empty and whose dates is not contributes the entries of dates; a
\* record with none of the three contributes nothing.  (Violated: line 94 takes
\* the first list that is present, and an empty one is truthy.)
C14_FirstNonEmptySeriesWins ==
    adDone =>
        LET dated == SelectSeq(NonEmptyEntries(ItemBuckets(adRaw), 1), HasDate)
        IN  /\ Len(adOut) = Len(dated)
            /\ \A i \in 1..Len(dated) : adOut[i].date = EntryDate(dated[i])
            /\ adRaw = [result |-> << [stats |-> << >>, dates |-> <<EntryA>>] >>]
                 => Len(adOut) = 1 /\ adOut[1].views = 10

\* For the order of the keys and for a record without any of them the adapter
\* does what C14 says (an invariant of SpecAd): the divergence needs a list that
\* is present and empty before one that is not empty.
FirstPresentSeriesWins ==
    adDone =>
        /\ \A i \in 1..Len(ItemBuckets(adRaw)) :
             LET b == ItemBuckets(adRaw)[i]
             IN  SeriesOf(b) # FirstNonEmptySeries(b) =>
                   \E k \in {"stats", "dates"} : k \in DOMAIN b /\ b[k] = <<>>
        /\ adRaw = [result |-> << [other |-> <<EntryA>>], [statistics |-> <<EntryA, EntryA>>] >>]
             => Len(adOut) = 2

(***************************************************************************)
(* Claims about the shape of the merged rows, checked under SpecMerge       *)
(***************************************************************************)
\* the dates that occur in a list of rows or pairs
DatesOf(s) == {s[i].date : i \in 1..Len(s)}

\* C15: after the merge the row list holds exactly one row for each date that
\* occurs in the item rows or in the call pairs, and no other row; a date that
\* occurs only in the call pairs has a row with date and calls and without
\* views and contacts; the rows are in strictly ascending date order.
C15_MergedRowsOnePerDateSorted ==
    mgDone =>
        /\ \A d \in DatesOf(mgRows) \cup DatesOf(mgCalls) :
             Cardinality({j \in 1..Len(mgOut) : mgOut[j].date = d}) = 1
        /\ DatesOf(mgOut) = DatesOf(mgRows) \cup DatesOf(mgCalls)
        /\ \A j \in 1..Len(mgOut) :
             mgOut[j].date \notin DatesOf(mgRows) => DOMAIN mgOut[j] = {"date", "calls"}
        /\ \A j \in 1..(Len(mgOut) - 1) : DateLess(mgOut[j].date, mgOut[j + 1].date)

\* C15 witness: item rows that repeat 2024-01-01 and call pairs for 2024-01-05
\* and 2023-12-31 have been merged into three rows, the first and the last
\* partial
C15_Witness ==
    /\ mgDone
    /\ Len(mgRows) = 2 /\ mgRows[1].date = mgRows[2].date
    /\ DatesOf(mgCalls) = {<<2024, 1, 5>>, <<2023, 12, 31>>}
    /\ Len(mgOut) = 3
    /\ mgOut[1] = [date |-> <<2023, 12, 31>>, calls |-> mgOut[1].calls]
    /\ mgOut[2].date = <<2024, 1, 1>> /\ mgOut[2].views = 7
    /\ DOMAIN mgOut[3] = {"date", "calls"}

(***************************************************************************)
(* Claims about the response of a /stats request, checked under SpecLive    *)
(***************************************************************************)
\* the steps that fairness is assumed of are the steps of Resume
ResumedIsResume == [][Resumed <=> Resume]_vars

\* C18: when every upstream call eventually returns or raises, a /stats request
\* that has begun is eventually answered, and at every moment it has sent at
\* most one response, with status 200 or 500: exactly one when it is done.
C18_AnsweredExactlyOnce ==
    /\ [](Len(resp) <= 1)
    /\ [](\A i \in 1..Len(resp) : resp[i].status \in {200, 500})
    /\ [](pc = "done" => Len(resp) = 1)
    /\ (pc # "idle") ~> (pc = "done" /\ Len(resp) = 1)

\* C18 witness: a request whose call-stats call failed on the network has been
\* answered, once, with 200
C18_Witness ==
    /\ pc = "done" /\ loc.callsStep = "neterr"
    /\ Len(resp) = 1 /\ resp[1].status = 200

====
